---- MODULE Spec2Model ----
(***************************************************************************)
(* A model of the retrieval-augmented generation core of the repository:   *)
(* the word-window chunker (DocumentProcessor), the bounded retry wrapper  *)
(* (WorkflowPipeline._with_retry), the embedding providers, the            *)
(* linear-scan search of the backend and its /documents routes, the        *)
(* statement-polling loops, document ingestion through the pipeline        *)
(* (ingest_files, save_to_unity_catalog, upsert, similarity_search) and    *)
(* the generation services with their prompt builders.                     *)
(*                                                                         *)
(* Strings are sequences of one-character strings, so that whitespace      *)
(* normalisation, split, join and dedent are computed and not assumed.     *)
(***************************************************************************)
EXTENDS Integers, Sequences, FiniteSets, TLC

VARIABLES
    \* ---- DocumentProcessor (src/src/services/document_service.py)
    cpc,        \* position: "new", "ValueError", "ready", "loop", "done", "built"
    req,        \* the (chunk_size, chunk_overlap) handed to the constructor
    dp,         \* the constructed instance: [chunk_size, chunk_overlap], or None
    text,       \* the argument of chunk_text
    words,      \* local of chunk_text
    start,      \* local of chunk_text
    chunks,     \* local of chunk_text, and its return value once cpc = "done"
    windows,    \* history: the (start, end) of the window of every chunk appended
    built,      \* what build_chunks returns for the text, once cpc = "built"
    \* ---- WorkflowPipeline._with_retry (src/src/orchestration/pipeline.py)
    rpc,        \* position: "new", "idle", "loop", "returned", "raised"
    max_retries,
    attempts,
    last_error, \* None or the error object caught last
    calls,      \* history: the outcome of every invocation of func, in order
    logged,     \* number of logger.warning calls
    result,     \* the value returned or the error raised
    \* ---- EmbeddingService / VectorSearchService.embed
    prov,       \* the current provider instance: [inst, dim, client], or None
    last_embed, \* the last embed call: instance, text, vector returned, remote call made
    memo,       \* history: one earlier fallback-mode embed call, or None
    \* ---- DocumentIngestionService (src/backend/app/services/documents.py)
    app_settings, \* settings: [embedding_dim, client]
    db_docs,    \* the documents table, in insertion order
    db_chunks,  \* the document_chunks table, in insertion order
    tmp_files,  \* the temporary files that exist
    response,   \* what the last service call returned or raised
    http,       \* the last answer of a route of /documents
    \* ---- _poll_statement of DocumentProcessor and of SOWGenerator
    qpc,        \* position: "idle", "polling", "returned", "raised"
    poller,     \* the class whose _poll_statement runs
    elapsed,    \* seconds since the poll began (time.time() - start)
    last_status, \* the statement status of the last GET
    poll_result, \* None, or the error _poll_statement raised
    \* ---- WorkflowPipeline.run_document_ingestion and the services it drives
    svc,        \* which remote services are configured: [uc, vs]
    ppc,        \* position: "idle", "persist", "index", "generate", "save_sow", "returned", "raised"
    batch,      \* the files handed to run_document_ingestion
    flags,      \* [persist, index]
    pl_chunks,  \* what ingest_files returned
    uc_rows,    \* the rows of the Unity Catalog table, in insertion order
    saves,      \* history: the number of rows each save attempt inserted
    vs_posts,   \* the upsert payloads the remote vector index received
    vs_upserted, \* history: the chunks of every upsert call that returned
    vs_response, \* what the last similarity_search returned
    pl_result,  \* what the pipeline call returned or raised (before, its local sow)
    pl_trace,   \* history: the invocations of the wrapped operations, [step, ok]
    \* ---- SowService.generate (backend) and SOWGenerator.generate_sow
    gen,        \* the generation backend: [client]
    sow_table,  \* the sow_documents table, in insertion order
    gen_count,  \* history: the number of generate calls that returned
    clock,      \* datetime.utcnow()
    last_gen,   \* the last generation call: service, request, outcome, body
    \* ---- DocumentProcessor.process_file
    fcalls,     \* history: the process_file calls made, [path, exists, ran, outcome]
    \* ---- the /auth routes login and refresh
    utc_now,    \* the clock, in whole seconds (the resolution of the exp claim)
    refresh_tokens, \* the refresh_tokens table, in insertion order: [user, token]
    spent,      \* history: the refresh tokens a refresh has exchanged
    auth_http   \* the last answer of /auth/login or /auth/refresh

chunkVars == <<cpc, req, dp, text, words, start, chunks, windows, built>>
retryVars == <<rpc, max_retries, attempts, last_error, calls, logged, result>>
embedVars == <<prov, last_embed, memo>>
indexVars == <<app_settings, db_docs, db_chunks, tmp_files, response, http>>
pollVars == <<qpc, poller, elapsed, last_status, poll_result>>
pipeVars == <<svc, ppc, batch, flags, pl_chunks, uc_rows, saves, vs_posts, vs_upserted,
              vs_response, pl_result, pl_trace>>
sowVars == <<gen, sow_table, gen_count, clock, last_gen>>
fileVars == <<fcalls>>
authVars == <<utc_now, refresh_tokens, spent, auth_http>>
vars == <<chunkVars, retryVars, embedVars, indexVars, pollVars, pipeVars, sowVars, fileVars, authVars>>

\* Python's None, where the value is otherwise a record.
None == [kind |-> "None"]

(***************************************************************************)
(* Bounds of the model.                                                    *)
(***************************************************************************)
MaxTextLen == 5
MaxSize == 3
MaxNeg == 2
MaxRetries == 3
MaxDim == 2
MaxEmbedLen == 3
\* The length of a digest and the number of values of a digest byte (32 and 256
\* for SHA-256), scaled down.
DigestLen == 2
ByteValues == 3
MaxDocs == 2
MaxK == 3
\* The longest a GET and the sleep after it take, in seconds.
MaxTick == 2
MaxSows == 2
MaxClock == 2
MaxCalls == 2
MaxNow == 2
MaxTokens == 2

Min(a, b) == IF a < b THEN a ELSE b
Max(a, b) == IF a > b THEN a ELSE b

(***************************************************************************)
(* Characters and strings.                                                 *)
(***************************************************************************)
Letters == {"a", "b"}
Whitespace == {" ", "\n"}
Chars == Letters \cup Whitespace

\* The characters of a string literal.
Characters(str) == [i \in 1..Len(str) |-> SubSeq(str, i, i)]

RECURSIVE StringsOver(_, _)
StringsOver(cs, n) ==
    IF n = 0 THEN {<<>>}
    ELSE LET shorter == StringsOver(cs, n - 1)
         IN  shorter \cup {Append(s, c) : s \in {t \in shorter : Len(t) = n - 1}, c \in cs}

\* A text of four words, longer than the enumerated ones.
LongTexts == {<<"a", " ", "b", " ", "a", " ", "b">>}
Texts == StringsOver(Chars, MaxTextLen) \cup LongTexts

\* Python's seq[lo:hi] for any integers lo, hi (negative indices count from the end).
PySlice(s, lo, hi) ==
    LET n == Len(s)
        l == IF lo < 0 THEN Max(lo + n, 0) ELSE Min(lo, n)
        h == IF hi < 0 THEN Max(hi + n, 0) ELSE Min(hi, n)
    IN  IF l >= h THEN <<>> ELSE SubSeq(s, l + 1, h)

\* str.strip(): whitespace removed at both ends.
RECURSIVE LStrip(_)
LStrip(s) == IF s # <<>> /\ Head(s) \in Whitespace THEN LStrip(Tail(s)) ELSE s

RECURSIVE RStrip(_)
RStrip(s) ==
    IF s # <<>> /\ s[Len(s)] \in Whitespace THEN RStrip(SubSeq(s, 1, Len(s) - 1)) ELSE s

Strip(s) == RStrip(LStrip(s))

\* re.sub(r"\s+", " ", s): every maximal whitespace run becomes one space.
RECURSIVE CollapseWs(_)
CollapseWs(s) ==
    IF s = <<>> THEN <<>>
    ELSE IF Head(s) \in Whitespace
         THEN <<" ">> \o CollapseWs(LStrip(Tail(s)))
         ELSE <<Head(s)>> \o CollapseWs(Tail(s))

Sanitize(s) == Strip(CollapseWs(s))

\* str.split(" "): cut at every single space; adjacent spaces give empty pieces.
RECURSIVE SplitSpace(_)
SplitSpace(s) ==
    IF \E i \in 1..Len(s) : s[i] = " "
    THEN LET i == CHOOSE j \in 1..Len(s) : s[j] = " " /\ \A k \in 1..(j - 1) : s[k] # " "
         IN  <<SubSeq(s, 1, i - 1)>> \o SplitSpace(SubSeq(s, i + 1, Len(s)))
    ELSE <<s>>

\* " ".join(ws)
RECURSIVE JoinSpace(_)
JoinSpace(ws) ==
    IF ws = <<>> THEN <<>>
    ELSE IF Len(ws) = 1 THEN ws[1]
         ELSE ws[1] \o <<" ">> \o JoinSpace(Tail(ws))

(***************************************************************************)
(* DocumentProcessor.__init__ and chunk_text.                              *)
(***************************************************************************)
SizeRange == (0 - MaxNeg)..MaxSize
\* The overlaps reach one below the sizes, so that every size of the range,
\* the least one included, is accepted with some overlap.
OverlapRange == (0 - MaxNeg - 1)..MaxSize

\* The constructor's check of its configuration.
RejectsMutGt(size, overlap) == overlap > size
Rejects(size, overlap) == overlap >= size

DocumentProcessor_init(size, overlap) ==
    /\ cpc = "new"
    /\ req' = <<size, overlap>>
    /\ IF Rejects(size, overlap)
       THEN /\ cpc' = "ValueError"
            /\ dp' = dp
       ELSE /\ cpc' = "ready"
            /\ dp' = [chunk_size |-> size, chunk_overlap |-> overlap]
    /\ UNCHANGED <<text, words, start, chunks, windows, built>>

\* chunk_text up to the loop: sanitise, return [] for empty text, split into words.
chunk_text_begin(t) ==
    /\ cpc = "ready"
    /\ text' = t
    /\ LET sanitized == Sanitize(t)
       IN  IF sanitized = <<>>
           THEN /\ cpc' = "done"
                /\ words' = <<>>
           ELSE /\ cpc' = "loop"
                /\ words' = SplitSpace(sanitized)
    /\ chunks' = <<>>
    /\ windows' = <<>>
    /\ start' = 0
    /\ UNCHANGED <<req, dp, built>>

\* One iteration of the loop body: the window's end, the chunks with the
\* window's chunk appended when it is not empty, and the next start.
WindowEnd(ws, size, st) == Min(st + size, Len(ws))
WindowChunk(ws, st, end) == Strip(JoinSpace(PySlice(ws, st, end)))
WithChunk(cs, chunk) == IF chunk # <<>> THEN Append(cs, chunk) ELSE cs
NextStart(end, overlap) == Max(end - overlap, 0)
WithWindow(wins, chunk, st, end) ==
    IF chunk # <<>> THEN Append(wins, [start |-> st, end |-> end]) ELSE wins

\* One evaluation of the while condition, and one iteration of the body.
chunk_text_loop ==
    /\ cpc = "loop"
    /\ IF start < Len(words)
       THEN LET end == WindowEnd(words, dp.chunk_size, start)
            IN  /\ chunks' = WithChunk(chunks, WindowChunk(words, start, end))
                /\ windows' = WithWindow(windows, WindowChunk(words, start, end), start, end)
                /\ start' = NextStart(end, dp.chunk_overlap)
                /\ cpc' = IF end = Len(words) THEN "done" ELSE "loop"
       ELSE /\ cpc' = "done"
            /\ UNCHANGED <<chunks, windows, start>>
    /\ UNCHANGED <<req, dp, text, words, built>>

\* chunk_text as a function: the loop run to its end.
RECURSIVE ChunkLoop(_, _, _, _, _)
ChunkLoop(ws, size, overlap, st, cs) ==
    IF st < Len(ws)
    THEN LET end == WindowEnd(ws, size, st)
             cs2 == WithChunk(cs, WindowChunk(ws, st, end))
         IN  IF end = Len(ws) THEN cs2 ELSE ChunkLoop(ws, size, overlap, NextStart(end, overlap), cs2)
    ELSE cs

ChunkText(t, size, overlap) ==
    LET sanitized == Sanitize(t)
    IN  IF sanitized = <<>> THEN <<>> ELSE ChunkLoop(SplitSpace(sanitized), size, overlap, 0, <<>>)

\* chunk_size: int = 800, chunk_overlap: int = 120
DefaultChunkSize == 800
DefaultChunkOverlap == 120

\* for idx, chunk in enumerate(...): one record per chunk, numbered from 0.
ChunkRecordsMutFromOne(cs, file_name) ==
    [i \in 1..Len(cs) |-> [chunk_id |-> i, content |-> cs[i], file_name |-> file_name]]
ChunkRecords(cs, file_name) ==
    [i \in 1..Len(cs) |-> [chunk_id |-> i - 1, content |-> cs[i], file_name |-> file_name]]

\* build_chunks of a processor with the default configuration.
build_chunks(content, file_name) ==
    ChunkRecords(ChunkText(content, DefaultChunkSize, DefaultChunkOverlap), file_name)

\* build_chunks of the constructed processor, once its call of chunk_text has
\* returned.
FileNames == {<<"f", ".", "t", "x", "t">>}
build_chunks_end(file_name) ==
    /\ cpc = "done"
    /\ cpc' = "built"
    /\ built' = ChunkRecords(chunks, file_name)
    /\ UNCHANGED <<req, dp, text, words, start, chunks, windows>>

(***************************************************************************)
(* WorkflowPipeline._with_retry.  The wrapped operation is the             *)
(* environment: each invocation either returns a value or raises an        *)
(* object, which is identified by the invocation that raised it.  An error *)
(* is an instance of Exception; KeyboardInterrupt and SystemExit derive    *)
(* from BaseException only and pass through "except Exception".            *)
(***************************************************************************)
ErrorTypes == {"RuntimeError", "TimeoutError", "ValueError"}
ExitTypes == {"KeyboardInterrupt"}
Values == {"v1", "v2"}
RetryRange == (0 - 1)..MaxRetries

\* max_retries: int = 3
DefaultMaxRetries == 3

Raised(n, type) == [kind |-> "error", id |-> n, type |-> type]
Returned(v) == [kind |-> "value", value |-> v]
Exits(n, type) == [kind |-> "exit", id |-> n, type |-> type]
Outcomes(n) ==
    {Raised(n, ty) : ty \in ErrorTypes} \cup {Exits(n, ty) : ty \in ExitTypes}
        \cup {Returned(v) : v \in Values}

\* except Exception
Caught(out) == out.type \in ErrorTypes

WorkflowPipeline_init(m) ==
    /\ rpc = "new"
    /\ rpc' = "idle"
    /\ max_retries' = m
    /\ UNCHANGED <<attempts, last_error, calls, logged, result>>

with_retry_begin ==
    /\ rpc = "idle"
    /\ rpc' = "loop"
    /\ attempts' = 0
    /\ last_error' = None
    /\ UNCHANGED <<max_retries, calls, logged, result>>

\* What the except clause keeps of the error it caught.
KeptErrorMutFirst(exc) == IF last_error = None THEN exc ELSE last_error
KeptError(exc) == exc

\* The while condition.
MayAttemptMutOffByOne == attempts <= max_retries
MayAttempt == attempts < max_retries

\* One iteration: func() returns, or raises and the except clause runs, or
\* raises what the except clause does not name.
with_retry_attempt ==
    /\ rpc = "loop"
    /\ MayAttempt
    /\ \E out \in Outcomes(Len(calls) + 1) :
        /\ calls' = Append(calls, out)
        /\ IF out.kind = "value"
           THEN /\ rpc' = "returned"
                /\ result' = out
                /\ UNCHANGED <<attempts, last_error, logged>>
           ELSE IF Caught(out)
                THEN /\ attempts' = attempts + 1
                     /\ last_error' = KeptError(out)
                     /\ logged' = logged + 1
                     /\ UNCHANGED <<rpc, result>>
                ELSE /\ rpc' = "raised"
                     /\ result' = out
                     /\ UNCHANGED <<attempts, last_error, logged>>
    /\ UNCHANGED max_retries

NoAttempts == [kind |-> "error", id |-> 0, type |-> "RuntimeError: no attempts executed"]

\* The loop is left with attempts >= max_retries.
with_retry_exhausted ==
    /\ rpc = "loop"
    /\ ~MayAttempt
    /\ rpc' = "raised"
    /\ result' = IF last_error # None THEN last_error ELSE NoAttempts
    /\ UNCHANGED <<max_retries, attempts, last_error, calls, logged>>


(***************************************************************************)
(* EmbeddingService.embed (backend/app/services/embedding.py) and          *)
(* VectorSearchService.embed (src/services/vector_search_service.py): the  *)
(* two methods are the same code over self.dim / self.local_embedding_dim. *)
(*                                                                         *)
(* A vector of floats is the record [num, den2] standing for the vector    *)
(* num[i] / sqrt(den2): the fallback's division by the norm is kept exact. *)
(* The digest bytes are in units of 1/255, which the normalisation cancels.*)
(***************************************************************************)
EmbedChars == {"B", " "}
\* The names of the provider instances constructed in one behaviour.
InstanceIds == {1, 2}
EmbedTexts == StringsOver(EmbedChars, MaxEmbedLen)
DimRange == 1..MaxDim

\* str.lower()
UpperCase == [b |-> "B", a |-> "A", p |-> "P", d |-> "D", f |-> "F", t |-> "T", x |-> "X"]
LowerChar(c) ==
    IF \E l \in DOMAIN UpperCase : UpperCase[l] = c
    THEN CHOOSE l \in DOMAIN UpperCase : UpperCase[l] = c
    ELSE c
Lower(s) == [i \in 1..Len(s) |-> LowerChar(s[i])]

CharCode(c) ==
    CASE c = "a" -> 1
      [] c = "b" -> 2
      [] c = ":" -> 3
      [] c = "," -> 4
      [] c = "\n" -> 5
      [] OTHER -> 6

RECURSIVE SumCodes(_)
SumCodes(s) == IF s = <<>> THEN 0 ELSE CharCode(Head(s)) + SumCodes(Tail(s))

\* hashlib.sha256(token).digest(): a fixed function from tokens to DigestLen bytes.
Digest(token) == [j \in 1..DigestLen |-> (SumCodes(token) * j + Len(token)) % ByteValues]

RECURSIVE SumSeq(_)
SumSeq(s) == IF s = <<>> THEN 0 ELSE Head(s) + SumSeq(Tail(s))

Dot(a, b) == SumSeq([i \in 1..Min(Len(a), Len(b)) |-> a[i] * b[i]])

ZeroVector(dim) == [num |-> [i \in 1..dim |-> 0], den2 |-> 1]

\* The accumulator the fallback starts from.
AccumulatorMutStale(dim) ==
    IF last_embed # None /\ Len(last_embed.vec.num) = dim
    THEN last_embed.vec.num
    ELSE [i \in 1..dim |-> 0]
Accumulator(dim) == [i \in 1..dim |-> 0]

\* The fallback: per token, digest[i % len(digest)] is added to vector[i]; the
\* result is divided by its norm unless the norm is zero.
HashEmbed(normalized, dim) ==
    LET tokens == SplitSpace(Lower(normalized))
        acc == Accumulator(dim)
        vector == [i \in 1..dim |->
                     acc[i] + SumSeq([t \in 1..Len(tokens) |->
                                         Digest(tokens[t])[((i - 1) % DigestLen) + 1]])]
        norm2 == Dot(vector, vector)
    IN  IF norm2 = 0 THEN [num |-> vector, den2 |-> 1] ELSE [num |-> vector, den2 |-> norm2]

\* client.embeddings.create(...).data[0].embedding: the backend's vector, of the
\* backend's own length.
RemoteVectors == {[num |-> [i \in 1..n |-> 1], den2 |-> 1] : n \in DimRange}

\* The outcomes of embed on text t for an instance with the given dim and client.
EmbedResultsMutClientFirst(t, dim, client) ==
    IF client
    THEN {[vec |-> rv, remote |-> TRUE] : rv \in RemoteVectors}
    ELSE IF Strip(t) = <<>>
         THEN {[vec |-> ZeroVector(dim), remote |-> FALSE]}
         ELSE {[vec |-> HashEmbed(Strip(t), dim), remote |-> FALSE]}
EmbedResults(t, dim, client) ==
    LET normalized == Strip(t)
    IN  IF normalized = <<>>
        THEN {[vec |-> ZeroVector(dim), remote |-> FALSE]}
        ELSE IF client
             THEN {[vec |-> rv, remote |-> TRUE] : rv \in RemoteVectors}
             ELSE {[vec |-> HashEmbed(normalized, dim), remote |-> FALSE]}

\* __init__ / _get_openai_client: a client exists when an API key is set and the
\* openai package is installed.
EmbeddingService_init(dim, api_key, openai_installed) ==
    /\ (IF prov = None THEN 1 ELSE prov.inst + 1) \in InstanceIds
    /\ prov' = [inst |-> IF prov = None THEN 1 ELSE prov.inst + 1,
                dim |-> dim,
                client |-> api_key /\ openai_installed]
    /\ UNCHANGED <<last_embed, memo>>

embed(t) ==
    /\ prov # None
    /\ \E r \in EmbedResults(t, prov.dim, prov.client) :
        LET call == [inst |-> prov.inst, dim |-> prov.dim, client |-> prov.client,
                     text |-> t, vec |-> r.vec, remote |-> r.remote]
        IN  /\ last_embed' = call
            /\ \/ memo' = memo
               \/ /\ memo = None
                  /\ ~prov.client
                  /\ memo' = call
    /\ UNCHANGED prov

(***************************************************************************)
(* DocumentIngestionService: ingest_upload, ingest_text_rows and search,   *)
(* over the documents and document_chunks tables.  The embedding column is *)
(* a JSON column (use_pgvector off, as with the sqlite database of the     *)
(* tests), so search takes its linear-scan branch.                         *)
(***************************************************************************)
\* sep.join(parts)
RECURSIVE JoinWith(_, _)
JoinWith(sep, parts) ==
    IF parts = <<>> THEN <<>>
    ELSE IF Len(parts) = 1 THEN parts[1]
         ELSE parts[1] \o sep \o JoinWith(sep, Tail(parts))

\* A row is a dict: a sequence of (column, value) pairs.
RowA == << <<<<"a">>, <<"a">>>> >>
RowB == << <<<<"a">>, <<"b">>>> >>
RowLists == {<<>>, <<RowA>>, <<RowB>>}
Sources == {<<"t">>, <<"u">>}

\* "\n".join([", ".join(f"{k}: {v}" for k, v in row.items()) for row in rows])
RowText(row) == JoinWith(<<",", " ">>, [i \in 1..Len(row) |-> row[i][1] \o <<":", " ">> \o row[i][2]])
RowsContent(rows) == JoinWith(<<"\n">>, [i \in 1..Len(rows) |-> RowText(rows[i])])

\* tempfile.NamedTemporaryFile(delete=False): "tmp" and random characters of
\* [a-z0-9_], with no suffix.
TmpNames == {<<"t", "m", "p", "a">>, <<"t", "m", "p", "b">>}
UploadNames == {<<"s", ".", "t", "x", "t">>, <<"s", ".", "b">>}
UploadBodies == {<<>>, <<"a">>, <<"a", " ", "b">>}

\* Path.suffix: the name from its last dot on, when that dot is not the first
\* character.
Suffix(name) ==
    LET dots == {i \in 2..Len(name) : name[i] = "."}
    IN  IF dots = {} THEN <<>>
        ELSE SubSeq(name, CHOOSE i \in dots : \A j \in dots : j <= i, Len(name))

\* Path.name: the path from after its last "/" on.
BaseName(path) ==
    LET slashes == {i \in 1..Len(path) : path[i] = "/"}
    IN  IF slashes = {} THEN path
        ELSE SubSeq(path, (CHOOSE i \in slashes : \A j \in slashes : j <= i) + 1, Len(path))

SupportedFormats ==
    {<<".", "p", "d", "f">>, <<".", "d", "o", "c", "x">>, <<".", "t", "x", "t">>, <<".", "c", "s", "v">>}

\* process_file on a path with the given name: the error it raises or the file
\* record it returns.
process_file(name, exists, data) ==
    IF ~exists THEN [kind |-> "error", type |-> "FileNotFoundError"]
    ELSE IF Lower(Suffix(BaseName(name))) \notin SupportedFormats
         THEN [kind |-> "error", type |-> "ValueError"]
         ELSE [kind |-> "record", content |-> data, file_name |-> BaseName(name),
               format |-> Tail(Lower(Suffix(BaseName(name))))]

\* The extractor process_file hands the path to, by its lower-cased suffix:
\* if / elif / elif, with _process_csv as the last branch.
ExtractorMutSuffixAsIs(path) ==
    LET ext == Suffix(BaseName(path))
    IN  IF ext = Characters(".pdf") THEN "_process_pdf"
        ELSE IF ext = Characters(".docx") THEN "_process_docx"
        ELSE IF ext = Characters(".txt") THEN "_process_txt"
        ELSE "_process_csv"
Extractor(path) ==
    LET ext == Lower(Suffix(BaseName(path)))
    IN  IF ext = Characters(".pdf") THEN "_process_pdf"
        ELSE IF ext = Characters(".docx") THEN "_process_docx"
        ELSE IF ext = Characters(".txt") THEN "_process_txt"
        ELSE "_process_csv"

\* The paths handed to process_file, the contents of the files and what an
\* extractor can end in besides its record (a parser or decoding error).
FilePaths ==
    {Characters(s) : s \in {"a.pdf", "a.PDF", "a.docx", "a.txt", "d/a.Txt", "a.csv", "a.b",
                            "a", ".txt", "a.txt.b", "a.b.csv", "d.pdf/a"}}
FileContents == {<<>>, <<"a">>, <<"a", " ", "b">>}
ExtractorErrors == {"ParserError"}

\* One call of process_file: the checks, then the extractor.
process_file_call(path, exists, data) ==
    /\ Len(fcalls) < MaxCalls
    /\ LET record == process_file(path, exists, data)
       IN  IF record.kind = "error"
           THEN fcalls' = Append(fcalls, [path |-> path, exists |-> exists, ran |-> <<>>,
                                          outcome |-> record])
           ELSE \E out \in {record} \cup {[kind |-> "error", type |-> ty] : ty \in ExtractorErrors} :
                   fcalls' = Append(fcalls, [path |-> path, exists |-> exists,
                                             ran |-> <<Extractor(path)>>, outcome |-> out])

\* _build_embeddings: one embedding per chunk, each an outcome of embed.
EmbeddingChoices(cs) ==
    {es \in [1..Len(cs) -> UNION {{r.vec : r \in EmbedResults(cs[i].content, app_settings.embedding_dim,
                                                         app_settings.client)} : i \in 1..Len(cs)}] :
        \A i \in 1..Len(cs) :
            es[i] \in {r.vec : r \in EmbedResults(cs[i].content, app_settings.embedding_dim,
                                                  app_settings.client)}}

\* The rows added for a document: db.add(document), flush, db.add(chunk_model)
\* per chunk, commit.
StoreDocument(title, source, cs, es) ==
    /\ db_docs' = Append(db_docs, [id |-> Len(db_docs) + 1, title |-> title, source |-> source])
    /\ db_chunks' = db_chunks \o
          [i \in 1..Len(cs) |->
              [id |-> Len(db_chunks) + i, document_id |-> Len(db_docs) + 1,
               content |-> cs[i].content, embedding |-> es[i],
               file_name |-> cs[i].file_name, chunk_id |-> cs[i].chunk_id]]
    /\ response' = [kind |-> "document", id |-> Len(db_docs) + 1, chunk_count |-> Len(cs)]

\* The temporary files left once tmp_path.unlink(missing_ok=True) has run.
UnlinkedMutKept(files, tmp) == files
Unlinked(files, tmp) == files \ {tmp}

ingest_upload(file_bytes, filename, tmp) ==
    /\ Len(db_docs) < MaxDocs
    /\ LET record == process_file(tmp, TRUE, file_bytes)
       IN  IF record.kind = "error"
           THEN /\ response' = record
                /\ UNCHANGED <<db_docs, db_chunks>>
           ELSE LET cs == build_chunks(record.content, record.file_name)
                IN  \E es \in EmbeddingChoices(cs) :
                        StoreDocument(IF record.file_name # <<>> THEN record.file_name ELSE filename,
                                      "upload", cs, es)
    \* finally: tmp_path.unlink(missing_ok=True)
    /\ tmp_files' = Unlinked(tmp_files \cup {tmp}, tmp)
    /\ UNCHANGED app_settings

ingest_text_rows(rows, source) ==
    /\ Len(db_docs) < MaxDocs
    /\ LET cs == build_chunks(RowsContent(rows), source)
       IN  \E es \in EmbeddingChoices(cs) : StoreDocument(source, "databricks", cs, es)
    /\ UNCHANGED <<app_settings, tmp_files, http>>

\* The embedding column is nullable (db/models.py): a row of document_chunks
\* written without an embedding, by a writer other than the two ingestions.
chunk_without_embedding ==
    /\ db_docs # <<>>
    /\ \A i \in 1..Len(db_chunks) : db_chunks[i].embedding # None
    /\ db_chunks' = Append(db_chunks,
          [id |-> Len(db_chunks) + 1, document_id |-> 1, content |-> <<"n">>, embedding |-> None,
           file_name |-> <<"n">>, chunk_id |-> 0])
    /\ response' = [kind |-> "row", id |-> Len(db_chunks) + 1]
    /\ UNCHANGED <<app_settings, db_docs, tmp_files, http>>

\* _cosine_similarity(a, b) as the pair [d, n] standing for d / sqrt(|a|^2 * n):
\* the dot product over zip(a, b) and the squared norm of b; 0.0 when a norm is 0.
cosine_similarityMutUnguarded(a, b) == [d |-> Dot(a.num, b.num), n |-> Dot(b.num, b.num)]
cosine_similarity(a, b) ==
    IF Dot(a.num, a.num) = 0 \/ Dot(b.num, b.num) = 0
    THEN [d |-> 0, n |-> 1]
    ELSE [d |-> Dot(a.num, b.num), n |-> Dot(b.num, b.num)]

\* s1 >= s2 for two scores against the same query vector.
SignedSquare(x) == IF x < 0 THEN 0 - (x * x) ELSE x * x
ScoreGeq(s1, s2) == SignedSquare(s1.d) * s2.n >= SignedSquare(s2.d) * s1.n

\* sorted(results, key=score, reverse=True): stable, equal scores keep their order.
InsertDescMutBeforeTies(sorted, x) ==
    LET p == Cardinality({i \in 1..Len(sorted) : ~ScoreGeq(x.score, sorted[i].score)})
    IN  SubSeq(sorted, 1, p) \o <<x>> \o SubSeq(sorted, p + 1, Len(sorted))
InsertDesc(sorted, x) ==
    LET p == Cardinality({i \in 1..Len(sorted) : ScoreGeq(sorted[i].score, x.score)})
    IN  SubSeq(sorted, 1, p) \o <<x>> \o SubSeq(sorted, p + 1, Len(sorted))

RECURSIVE SortDesc(_)
SortDesc(rs) ==
    IF rs = <<>> THEN <<>>
    ELSE InsertDesc(SortDesc(SubSeq(rs, 1, Len(rs) - 1)), rs[Len(rs)])

\* chunk.embedding or [0.0 for _ in embed]
EmbeddingOrZeros(e, embedded) ==
    IF e = None \/ Len(e.num) = 0 THEN ZeroVector(Len(embedded.num)) ELSE e

\* The cut of the sorted results: [:k]
TopK(sorted, k) == PySlice(sorted, 0, k)

search(query, k) ==
    /\ \E r \in EmbedResults(query, app_settings.embedding_dim, app_settings.client) :
        LET results == [i \in 1..Len(db_chunks) |->
                          [id |-> db_chunks[i].id, content |-> db_chunks[i].content,
                           score |-> cosine_similarity(r.vec,
                                        EmbeddingOrZeros(db_chunks[i].embedding, r.vec))]]
        IN  response' = [kind |-> "search", query |-> query, k |-> k,
                         results |-> TopK(SortDesc(results), k)]
    /\ UNCHANGED <<app_settings, db_docs, db_chunks, tmp_files>>

\* The routes of /documents (backend/app/api/routes/documents.py), called by an
\* authenticated user.  upload_document answers 400 to a ValueError of
\* ingest_upload and 200 to a stored document.
IsTxtUpload(filename, contents) ==
    Lower(Suffix(filename)) = <<".", "t", "x", "t">> /\ contents # <<>>

upload_document(contents, filename, tmp) ==
    /\ ingest_upload(contents, filename, tmp)
    /\ http' = [route |-> "upload",
                status |-> IF response'.kind = "document" THEN 200
                           ELSE IF response'.type = "ValueError" THEN 400 ELSE 500,
                txt |-> IsTxtUpload(filename, contents)]

search_documents(query, k) ==
    /\ search(query, k)
    /\ http' = [route |-> "search", status |-> 200, count |-> Len(response'.results)]

(***************************************************************************)
(* _poll_statement: DocumentProcessor (document_service.py) and            *)
(* SOWGenerator (sow_service.py).  The SQL warehouse is the environment:   *)
(* every GET returns a statement status of its choice, or fails.           *)
(***************************************************************************)
Pollers == {"DocumentProcessor", "SOWGenerator"}
PendingStates == {"PENDING", "RUNNING", "QUEUED"}
StatementStates == PendingStates \cup {"FAILED", "SUCCEEDED", "CANCELED", "CLOSED", "missing"}
ErrorDetails == {"e1", "e2"}

\* if time.time() - start > 120
PollCeiling == 120

\* What a GET of the statement gives: a body with a status, or an HTTPError.
StatusResponses ==
    {[http |-> "ok", state |-> st, error |-> "none"] : st \in StatementStates \ {"FAILED"}}
        \cup {[http |-> "ok", state |-> "FAILED", error |-> d] : d \in ErrorDetails}
        \cup {[http |-> "HTTPError", state |-> "missing", error |-> d] : d \in ErrorDetails}

\* Whether the poll of the class gives up on a pending statement.
TimedOut(who) == who = "DocumentProcessor" /\ elapsed > PollCeiling

poll_statement_begin(who) ==
    /\ qpc # "polling"
    /\ qpc' = "polling"
    /\ poller' = who
    /\ elapsed' = 0
    /\ last_status' = None
    /\ poll_result' = None

\* One iteration of "while True": the GET, the tests of the status, the sleep.
\* The GET of the iteration took the time added to elapsed by the one before.
poll_statement_step(resp, tick) ==
    /\ qpc = "polling"
    /\ last_status' = resp
    /\ IF resp.http # "ok"
       THEN /\ qpc' = "raised"
            /\ poll_result' = [kind |-> "error", type |-> "RuntimeError", detail |-> resp.error]
            /\ UNCHANGED elapsed
       ELSE IF resp.state \in PendingStates
            THEN IF TimedOut(poller)
                 THEN /\ qpc' = "raised"
                      /\ poll_result' = [kind |-> "error", type |-> "TimeoutError", detail |-> "none"]
                      /\ UNCHANGED elapsed
                 ELSE /\ elapsed' = Min(elapsed + tick, PollCeiling + MaxTick)
                      /\ UNCHANGED <<qpc, poll_result>>
            ELSE IF resp.state = "FAILED"
                 THEN /\ qpc' = "raised"
                      /\ poll_result' = [kind |-> "error", type |-> "RuntimeError", detail |-> resp.error]
                      /\ UNCHANGED elapsed
                 ELSE /\ qpc' = "returned"
                      /\ UNCHANGED <<elapsed, poll_result>>
    /\ UNCHANGED poller

(***************************************************************************)
(* WorkflowPipeline.run_document_ingestion (pipeline.py) over              *)
(* DocumentProcessor.ingest_files and save_to_unity_catalog and            *)
(* VectorSearchService.upsert and similarity_search.  The vector service   *)
(* has no OpenAI key, so its embed is the fallback and cannot fail.  The   *)
(* SQL warehouse and the remote index are the environment: a statement or  *)
(* a request either succeeds or raises.                                    *)
(***************************************************************************)
FileA == [name |-> <<"a", ".", "t", "x", "t">>, exists |-> TRUE, data |-> <<"a", " ", "b">>]
FileMissing == [name |-> <<"m", ".", "t", "x", "t">>, exists |-> FALSE, data |-> <<>>]
FileUnsupported == [name |-> <<"s", ".", "b">>, exists |-> TRUE, data |-> <<"b">>]
FileADir == [name |-> <<"d", "/", "a", ".", "t", "x", "t">>, exists |-> TRUE, data |-> <<"b">>]
Files == {FileA, FileMissing, FileUnsupported, FileADir}

\* The file lists handed to run_document_ingestion.
Batches ==
    {<<>>, <<FileA>>, <<FileMissing>>, <<FileUnsupported>>, <<FileA, FileMissing>>,
     <<FileUnsupported, FileA>>, <<FileA, FileA>>, <<FileA, FileADir>>}

\* The configurations of the pipeline's document service: one word per
\* chunk, and the defaults.
PipelineConfigs == {<<1, 0>>, <<DefaultChunkSize, DefaultChunkOverlap>>}

Extracted(f) == process_file(f.name, f.exists, f.data)

\* ingest_files: the chunks of every file that process_file accepts, in the
\* order of the list; the exception of a file is logged and the loop goes on.
RECURSIVE ingest_files(_, _, _)
ingest_files(file_paths, size, overlap) ==
    IF file_paths = <<>> THEN <<>>
    ELSE LET record == Extracted(Head(file_paths))
             rest == ingest_files(Tail(file_paths), size, overlap)
         IN  IF record.kind = "error" THEN rest
             ELSE ChunkRecords(ChunkText(record.content, size, overlap), record.file_name) \o rest

\* The errors a statement or a request can end in.
RemoteErrors == {"RuntimeError", "TimeoutError"}

\* The position after a phase that has returned.
AfterPersist == IF flags.index THEN "index" ELSE "returned"

run_document_ingestion(files, persist, index) ==
    /\ rpc = "idle"
    /\ cpc = "ready"
    /\ ppc = "idle"
    /\ batch' = files
    /\ flags' = [persist |-> persist, index |-> index]
    /\ pl_chunks' = ingest_files(files, dp.chunk_size, dp.chunk_overlap)
    /\ ppc' = IF persist THEN "persist" ELSE IF index THEN "index" ELSE "returned"
    /\ pl_result' = IF persist \/ index THEN pl_result
                    ELSE [kind |-> "chunks", chunks |-> pl_chunks']
    \* _with_retry: attempts = 0, last_error = None
    /\ attempts' = 0
    /\ last_error' = None
    /\ UNCHANGED <<rpc, max_retries, calls, logged, result>>
    /\ UNCHANGED <<svc, uc_rows, saves, vs_posts, vs_upserted, vs_response, pl_trace>>

\* The position after an attempt that raised: _with_retry calls the same func
\* again.
RetryPositionMutRestart(step) ==
    IF step = "index" /\ flags.persist THEN "persist"
    ELSE IF step = "save_sow" THEN "generate" ELSE step
RetryPosition(step) == step

\* The record of one invocation of a wrapped operation.
Invoked(step, ok) == Append(pl_trace, [step |-> step, ok |-> ok])

\* The chunk a save attempt starts from, given the number of rows the earlier
\* attempts of the call inserted: for chunk in chunks.
SaveFromMutResume(done) == done
SaveFrom(done) == 0

\* One attempt of _with_retry(lambda: save_to_unity_catalog(chunks)): without a
\* warehouse it returns False, without chunks True; otherwise CREATE TABLE and
\* one INSERT per chunk, the first statement that fails ending the attempt.
persist_attempt ==
    /\ ppc = "persist"
    /\ MayAttempt
    /\ LET n == Len(pl_chunks)
           from == Min(SaveFrom(Len(uc_rows)), n)
       IN  \/ /\ ~svc.uc \/ n = 0
              /\ ppc' = AfterPersist
              /\ pl_result' = IF flags.index THEN pl_result
                              ELSE [kind |-> "chunks", chunks |-> pl_chunks]
              /\ attempts' = 0
              /\ last_error' = None
              /\ pl_trace' = Invoked("persist", TRUE)
              /\ UNCHANGED <<uc_rows, saves, calls, logged>>
           \/ /\ svc.uc /\ n > 0
              /\ uc_rows' = uc_rows \o SubSeq(pl_chunks, from + 1, n)
              /\ saves' = Append(saves, n - from)
              /\ ppc' = AfterPersist
              /\ pl_result' = IF flags.index THEN pl_result
                              ELSE [kind |-> "chunks", chunks |-> pl_chunks]
              /\ attempts' = 0
              /\ last_error' = None
              /\ pl_trace' = Invoked("persist", TRUE)
              /\ UNCHANGED <<calls, logged>>
           \/ /\ svc.uc /\ n > 0
              /\ \E upto \in from..(n - 1), ty \in RemoteErrors :
                    /\ uc_rows' = uc_rows \o SubSeq(pl_chunks, from + 1, upto)
                    /\ saves' = Append(saves, upto - from)
                    /\ calls' = Append(calls, Raised(Len(calls) + 1, ty))
                    /\ last_error' = KeptError(Raised(Len(calls) + 1, ty))
              /\ attempts' = attempts + 1
              /\ logged' = logged + 1
              /\ pl_trace' = Invoked("persist", FALSE)
              /\ ppc' = RetryPosition("persist")
              /\ UNCHANGED pl_result
    /\ UNCHANGED <<rpc, max_retries, result>>
    /\ UNCHANGED <<svc, batch, flags, pl_chunks, vs_posts, vs_upserted, vs_response>>

\* The identifiers of the vectors upsert builds: f"{file_name}::{chunk_id}"
VectorIds(cs) == [i \in 1..Len(cs) |-> <<cs[i].file_name, cs[i].chunk_id>>]

\* One attempt of _with_retry(lambda: upsert(chunks)): nothing to do without
\* chunks; without an endpoint the vectors are built and dropped; otherwise
\* one POST of all the vectors.
index_attempt ==
    /\ ppc = "index"
    /\ MayAttempt
    /\ \/ /\ pl_chunks = <<>> \/ ~svc.vs
          /\ vs_upserted' = vs_upserted \o pl_chunks
          /\ ppc' = "returned"
          /\ pl_result' = [kind |-> "chunks", chunks |-> pl_chunks]
          /\ pl_trace' = Invoked("index", TRUE)
          /\ UNCHANGED <<vs_posts, attempts, last_error, calls, logged>>
       \/ /\ pl_chunks # <<>> /\ svc.vs
          /\ vs_posts' = Append(vs_posts, VectorIds(pl_chunks))
          /\ vs_upserted' = vs_upserted \o pl_chunks
          /\ ppc' = "returned"
          /\ pl_result' = [kind |-> "chunks", chunks |-> pl_chunks]
          /\ pl_trace' = Invoked("index", TRUE)
          /\ UNCHANGED <<attempts, last_error, calls, logged>>
       \/ /\ pl_chunks # <<>> /\ svc.vs
          /\ \E ty \in RemoteErrors :
                /\ calls' = Append(calls, Raised(Len(calls) + 1, ty))
                /\ last_error' = KeptError(Raised(Len(calls) + 1, ty))
          /\ attempts' = attempts + 1
          /\ logged' = logged + 1
          /\ pl_trace' = Invoked("index", FALSE)
          /\ ppc' = RetryPosition("index")
          /\ UNCHANGED <<vs_posts, vs_upserted, pl_result>>
    /\ UNCHANGED <<rpc, max_retries, result>>
    /\ UNCHANGED <<svc, batch, flags, pl_chunks, uc_rows, saves, vs_response>>

\* _with_retry leaves its loop: raise last_error, or the "no attempts" error.
ingestion_exhausted ==
    /\ ppc \in {"persist", "index", "generate", "save_sow"}
    /\ ~MayAttempt
    /\ ppc' = "raised"
    /\ pl_result' = IF last_error # None THEN last_error ELSE NoAttempts
    /\ UNCHANGED retryVars
    /\ UNCHANGED <<svc, batch, flags, pl_chunks, uc_rows, saves, vs_posts, vs_upserted, vs_response,
                   pl_trace>>

\* generate_statement_of_work: the snippets are read from similar_context, then
\* _with_retry(generate_sow) starts with attempts = 0, last_error = None.
generate_statement_of_work(persist) ==
    /\ rpc = "idle"
    /\ ppc = "idle"
    /\ flags' = [persist |-> persist, index |-> FALSE]
    /\ ppc' = "generate"
    /\ attempts' = 0
    /\ last_error' = None
    /\ UNCHANGED <<rpc, max_retries, calls, logged, result>>
    /\ UNCHANGED <<svc, batch, pl_chunks, uc_rows, saves, vs_posts, vs_upserted, vs_response,
                   pl_result, pl_trace>>

\* What generate_sow returns: the prompt without a client, otherwise the text
\* of the completion ("" for a missing content).
SowTexts == IF gen.client THEN {"completion", ""} ELSE {"prompt"}

\* One attempt of _with_retry(lambda: generate_sow(...)): the text, or with a
\* client the exception of the completion request.
generate_attempt ==
    /\ ppc = "generate"
    /\ MayAttempt
    /\ \/ /\ \E t \in SowTexts : pl_result' = [kind |-> "sow", text |-> t]
          /\ ppc' = IF flags.persist THEN "save_sow" ELSE "returned"
          /\ attempts' = 0
          /\ last_error' = None
          /\ pl_trace' = Invoked("generate", TRUE)
          /\ UNCHANGED <<calls, logged>>
       \/ /\ gen.client
          /\ \E ty \in RemoteErrors :
                /\ calls' = Append(calls, Raised(Len(calls) + 1, ty))
                /\ last_error' = KeptError(Raised(Len(calls) + 1, ty))
          /\ attempts' = attempts + 1
          /\ logged' = logged + 1
          /\ pl_trace' = Invoked("generate", FALSE)
          /\ ppc' = RetryPosition("generate")
          /\ UNCHANGED pl_result
    /\ UNCHANGED <<rpc, max_retries, result>>
    /\ UNCHANGED <<svc, batch, flags, pl_chunks, uc_rows, saves, vs_posts, vs_upserted, vs_response>>

\* One attempt of _with_retry(lambda: save_sow(sow, ...)): without a warehouse
\* it returns False; otherwise CREATE TABLE and INSERT, either of which can
\* raise.
save_sow_attempt ==
    /\ ppc = "save_sow"
    /\ MayAttempt
    /\ \/ /\ ppc' = "returned"
          /\ pl_trace' = Invoked("save_sow", TRUE)
          /\ UNCHANGED <<attempts, last_error, calls, logged>>
       \/ /\ gen.uc
          /\ \E ty \in RemoteErrors :
                /\ calls' = Append(calls, Raised(Len(calls) + 1, ty))
                /\ last_error' = KeptError(Raised(Len(calls) + 1, ty))
          /\ attempts' = attempts + 1
          /\ logged' = logged + 1
          /\ pl_trace' = Invoked("save_sow", FALSE)
          /\ ppc' = RetryPosition("save_sow")
    /\ UNCHANGED <<rpc, max_retries, result>>
    /\ UNCHANGED <<svc, batch, flags, pl_chunks, uc_rows, saves, vs_posts, vs_upserted, vs_response,
                   pl_result>>

\* What the remote index answers a query with: a dict with up to k results, or
\* a body that is no dict.
RemoteAnswers(k) ==
    {[dict |-> d, results |-> PySlice(ids, 0, Max(k, 0))] :
        d \in BOOLEAN, ids \in {<<>>} \cup {vs_posts[i] : i \in 1..Len(vs_posts)}}

\* similarity_search: the query is embedded; without an endpoint the result is
\* the empty list, otherwise the answer of the remote index.
similarity_search(query, k) ==
    /\ IF ~svc.vs
       THEN vs_response' = [query |-> query, k |-> k, results |-> <<>>]
       ELSE \E ans \in RemoteAnswers(k) :
               vs_response' = [query |-> query, k |-> k,
                               results |-> IF ans.dict THEN ans.results ELSE <<>>]
    /\ UNCHANGED <<svc, ppc, batch, flags, pl_chunks, uc_rows, saves, vs_posts, vs_upserted,
                   pl_result, pl_trace>>

(***************************************************************************)
(* The generation services: SowService.generate of the backend             *)
(* (backend/app/services/sow.py), which stores a SOWDocument, and          *)
(* SOWGenerator.generate_sow (src/services/sow_service.py), which returns  *)
(* the text.  The prompts are computed character by character: the         *)
(* f-string template, textwrap.dedent, str.strip.                          *)
(***************************************************************************)
\* str.split(c) for a one-character separator.
RECURSIVE SplitOn(_, _)
SplitOn(t, c) ==
    IF \E i \in 1..Len(t) : t[i] = c
    THEN LET i == CHOOSE j \in 1..Len(t) : t[j] = c /\ \A k \in 1..(j - 1) : t[k] # c
         IN  <<SubSeq(t, 1, i - 1)>> \o SplitOn(SubSeq(t, i + 1, Len(t)), c)
    ELSE <<t>>

\* textwrap.dedent: lines of blanks only become empty, and the longest run of
\* blanks that every other line starts with is removed from each line.
Dedent(t) ==
    LET lines == SplitOn(t, "\n")
        norm == [i \in 1..Len(lines) |-> IF LStrip(lines[i]) = <<>> THEN <<>> ELSE lines[i]]
        indents == {Len(norm[i]) - Len(LStrip(norm[i])) : i \in {j \in 1..Len(norm) : norm[j] # <<>>}}
        margin == IF indents = {} THEN 0 ELSE CHOOSE m \in indents : \A o \in indents : m <= o
    IN  JoinWith(<<"\n">>, [i \in 1..Len(norm) |-> SubSeq(norm[i], margin + 1, Len(norm[i]))])

\* The template of SowService._build_prompt, between its placeholders.
SowServiceText1 ==
    Characters("\n" \o
        "            Create a structured Statement of Work for project ")
SowServiceText2 ==
    Characters(" in a ")
SowServiceText3 ==
    Characters(" tone.\n" \o
        "            Include executive summary, scope, deliverables, milestones, assumptions, dependencies,\n" \o
        "            acceptance criteria, and a RACI table. Use bullet lists where helpful.\n" \o
        "\n" \o
        "            Requirements:\n" \o
        "            - ")
SowServiceText4 ==
    Characters("\n" \o
        "\n" \o
        "            Constraints:\n" \o
        "            - ")
SowServiceText5 ==
    Characters("\n" \o
        "\n" \o
        "            Retrieved context:\n" \o
        "            ")
SowServiceText6 ==
    Characters("\n" \o
        "            ")


\* The template of SOWGenerator._build_prompt, between its placeholders.
SOWGeneratorText1 ==
    Characters("\n" \o
        "            Create a Statement of Work in a ")
SOWGeneratorText2 ==
    Characters(" tone.\n" \o
        "\n" \o
        "            Project Details: ")
SOWGeneratorText3 ==
    Characters("\n" \o
        "            Requirements:\n" \o
        "- ")
SOWGeneratorText4 ==
    Characters("\n" \o
        "            Constraints:\n" \o
        "- ")
SOWGeneratorText5 ==
    Characters("\n" \o
        "            Context Snippets:\n")
SOWGeneratorText6 ==
    Characters("\n" \o
        "\n" \o
        "            Include milestones, deliverables, acceptance criteria, and success metrics.\n" \o
        "            Provide a concise executive summary followed by detailed sections.\n" \o
        "            ")

NoneProvided == Characters("None provided")
NoRetrievedContext == Characters("No retrieved context")
NoContextRetrieved == Characters("No context retrieved")
BulletSeparator == Characters("\n- ")
SnippetSeparator == Characters("\n---\n")

\* SowService._build_prompt
SowService_build_prompt(project_id, requirements, constraints, snippets, tone) ==
    LET requirement_text == JoinWith(BulletSeparator, requirements)
        constraint_text == IF constraints # <<>> THEN JoinWith(BulletSeparator, constraints)
                           ELSE NoneProvided
        context_text == IF snippets # <<>> THEN JoinWith(SnippetSeparator, snippets)
                        ELSE NoRetrievedContext
    IN  Strip(Dedent(SowServiceText1 \o project_id \o SowServiceText2 \o tone \o SowServiceText3
                       \o requirement_text \o SowServiceText4 \o constraint_text
                       \o SowServiceText5 \o context_text \o SowServiceText6))

\* str(project_details) for a dict of strings: {'key': 'value', ...}
DictRepr(d) ==
    <<"{">> \o JoinWith(<<",", " ">>,
                        [i \in 1..Len(d) |-> <<"'">> \o d[i][1] \o Characters("': '") \o d[i][2] \o <<"'">>])
           \o <<"}">>

\* "sep".join(items or []) or sentinel
JoinedOr(sep, items, sentinel) ==
    IF JoinWith(sep, items) = <<>> THEN sentinel ELSE JoinWith(sep, items)

\* SOWGenerator._build_prompt
SOWGenerator_build_prompt(project_details, requirements, constraints, context_snippets, tone) ==
    LET scope == JoinWith(BulletSeparator, requirements)
        constraint_text == JoinedOr(BulletSeparator, constraints, NoneProvided)
        context_text == JoinedOr(SnippetSeparator, context_snippets, NoContextRetrieved)
    IN  Strip(Dedent(SOWGeneratorText1 \o tone \o SOWGeneratorText2 \o DictRepr(project_details)
                       \o SOWGeneratorText3 \o scope \o SOWGeneratorText4 \o constraint_text
                       \o SOWGeneratorText5 \o context_text \o SOWGeneratorText6))

\* The requests: project p, one or two requirements, no or two constraints, no
\* or two snippets.
Request(requirements, constraints, context_snippets) ==
    [project_id |-> <<"p">>, requirements |-> requirements, constraints |-> constraints,
     context_snippets |-> context_snippets, tone |-> Characters("professional")]

GenerationRequests ==
    {Request(<<<<"r">>>>, <<>>, <<>>),
     Request(<<<<"r">>, <<"q">>>>, <<>>, <<<<"s">>, <<"t">>>>),
     Request(<<<<"r">>>>, <<<<"c">>, <<"d">>>>, <<>>),
     Request(<<<<"r">>, <<"q">>>>, <<<<"c">>, <<"d">>>>, <<<<"s">>, <<"t">>>>)}

Services == {"SowService", "SOWGenerator"}

\* The prompt a service assembles for a request.
BuildPrompt(service, request) ==
    IF service = "SowService"
    THEN SowService_build_prompt(request.project_id, request.requirements, request.constraints,
                                 request.context_snippets, request.tone)
    ELSE SOWGenerator_build_prompt(<< <<Characters("project_id"), request.project_id>> >>,
                                   request.requirements, request.constraints,
                                   request.context_snippets, request.tone)

\* The prompts of all requests, computed once.
Prompts == [service \in Services |-> [request \in GenerationRequests |-> BuildPrompt(service, request)]]
PromptOf(service, request) == Prompts[service][request]

\* response.choices[0].message.content or ""
BackendTexts == {Characters("ok"), <<>>}

\* The body without a backend.
FallbackBodyMutTruncated(prompt) == SubSeq(prompt, 1, Len(prompt) - 1)
FallbackBody(prompt) == prompt

\* What the generation step ends in: a body, or the error of the backend call.
GenerateOutcomes(prompt, client) ==
    IF client
    THEN {[outcome |-> "body", body |-> t] : t \in BackendTexts}
            \cup {[outcome |-> "error", body |-> <<>>]}
    ELSE {[outcome |-> "body", body |-> FallbackBody(prompt)]}

\* db.add(sow); db.commit(): a new row of sow_documents.
StoreArtifactMutReplace(table, row) ==
    IF \E i \in 1..Len(table) : table[i].project_id = row.project_id
    THEN [i \in 1..Len(table) |-> IF table[i].project_id = row.project_id
                                  THEN [row EXCEPT !.id = table[i].id] ELSE table[i]]
    ELSE Append(table, row)
StoreArtifact(table, row) == Append(table, row)

StatementOfWork == Characters("Statement of Work")
Titles == {<<>>, <<"T">>}

SowService_generate(request, title) ==
    /\ gen_count < MaxSows
    /\ LET prompt == PromptOf("SowService", request)
       IN  \E out \in GenerateOutcomes(prompt, gen.client), now \in clock..Min(clock + 1, MaxClock) :
              /\ last_gen' = [service |-> "SowService", request |-> request, client |-> gen.client,
                              outcome |-> out.outcome, body |-> out.body]
              /\ IF out.outcome = "error"
                 THEN UNCHANGED <<sow_table, gen_count, clock>>
                 ELSE /\ sow_table' = StoreArtifact(sow_table,
                            [id |-> gen_count + 1,
                             project_id |-> request.project_id,
                             title |-> IF title # <<>> THEN title ELSE StatementOfWork,
                             body |-> out.body,
                             metadata |-> [requirements |-> request.requirements,
                                           constraints |-> request.constraints],
                             created_at |-> now])
                      /\ gen_count' = gen_count + 1
                      /\ clock' = now
    /\ UNCHANGED gen

SOWGenerator_generate_sow(request) ==
    /\ LET prompt == PromptOf("SOWGenerator", request)
       IN  \E out \in GenerateOutcomes(prompt, gen.client) :
              last_gen' = [service |-> "SOWGenerator", request |-> request, client |-> gen.client,
                           outcome |-> out.outcome, body |-> out.body]
    /\ UNCHANGED <<gen, sow_table, gen_count, clock>>

(***************************************************************************)
(* The routes /auth/login and /auth/refresh (backend/app/api/routes/       *)
(* auth.py) over create_token and decode_token (backend/app/core/          *)
(* security.py).  A token is the JWT of its claims: HS256 over the same    *)
(* header, claims and key gives the same string, so a token is the record  *)
(* of its claims and of the key that signed it.  jwt.encode writes the exp *)
(* claim in whole seconds.                                                 *)
(***************************************************************************)
Users == {"u1", "u2"}
Signers == {"jwt_secret_key", "other"}

\* settings.access_token_expire_minutes and refresh_token_expire_minutes
AccessTokenExpireMinutes == 30
RefreshTokenExpireMinutes == 60 * 24 * 14

\* create_token: {"sub": subject, "exp": utcnow() + expires_delta}, signed with
\* the key of the settings.
create_token(subject, expire_minutes) ==
    [sub |-> subject, exp |-> utc_now + expire_minutes * 60, sig |-> "jwt_secret_key"]

\* decode_token: the subject of a token with a valid signature that has not
\* expired, None for everything else.
decode_token(token) ==
    IF token.sig = "jwt_secret_key" /\ token.exp >= utc_now THEN [kind |-> "sub", sub |-> token.sub]
    ELSE None

\* The strings a client can present as a refresh token: the tokens of the
\* two lifetimes, with a valid signature or not.
PresentedTokens ==
    [sub : Users,
     exp : {t + minutes * 60 : t \in 0..MaxNow, minutes \in {AccessTokenExpireMinutes, RefreshTokenExpireMinutes}},
     sig : Signers]

\* The rows of refresh_tokens holding the token (the column is unique).
RowsWith(token) == {i \in 1..Len(refresh_tokens) : refresh_tokens[i].token = token}

second_passes ==
    /\ utc_now < MaxNow
    /\ utc_now' = utc_now + 1
    /\ UNCHANGED <<refresh_tokens, spent, auth_http>>

\* login: 401 for wrong credentials; otherwise a new row with the refresh
\* token, which the unique column refuses when the token is stored already.
login(user, verified) ==
    /\ Len(refresh_tokens) < MaxTokens
    /\ LET refresh_token == create_token(user, RefreshTokenExpireMinutes)
       IN  IF ~verified
           THEN /\ auth_http' = [route |-> "login", status |-> 401, reused |-> FALSE]
                /\ UNCHANGED refresh_tokens
           ELSE IF RowsWith(refresh_token) # {}
                THEN /\ auth_http' = [route |-> "login", status |-> 500, reused |-> FALSE]
                     /\ UNCHANGED refresh_tokens
                ELSE /\ auth_http' = [route |-> "login", status |-> 200, reused |-> FALSE,
                                     refresh_token |-> refresh_token]
                     /\ refresh_tokens' = Append(refresh_tokens, [user |-> user, token |-> refresh_token])
    /\ UNCHANGED <<utc_now, spent>>

\* refresh: 401 when the token does not decode or no row holds it; otherwise
\* the row's token is replaced by a new refresh token.
refresh(token) ==
    /\ LET email == decode_token(token)
       IN  IF email = None \/ RowsWith(token) = {}
           THEN /\ auth_http' = [route |-> "refresh", status |-> 401, reused |-> token \in spent,
                                token |-> token]
                /\ UNCHANGED <<refresh_tokens, spent>>
           ELSE LET record == CHOOSE i \in RowsWith(token) : \A j \in RowsWith(token) : i <= j
                    refresh_token == create_token(email.sub, RefreshTokenExpireMinutes)
                IN  IF RowsWith(refresh_token) \ {record} # {}
                    THEN /\ auth_http' = [route |-> "refresh", status |-> 500,
                                         reused |-> token \in spent, token |-> token]
                         /\ UNCHANGED <<refresh_tokens, spent>>
                    ELSE /\ refresh_tokens' = [refresh_tokens EXCEPT ![record].token = refresh_token]
                         /\ spent' = spent \cup {token}
                         /\ auth_http' = [route |-> "refresh", status |-> 200,
                                         reused |-> token \in spent, token |-> token,
                                         refresh_token |-> refresh_token]
    /\ UNCHANGED utc_now

(***************************************************************************)
(* Specifications.                                                         *)
(***************************************************************************)
InitCore ==
    /\ cpc = "new"
    /\ req = <<>>
    /\ dp = None
    /\ text = <<>>
    /\ words = <<>>
    /\ start = 0
    /\ chunks = <<>>
    /\ windows = <<>>
    /\ built = <<>>
    /\ rpc = "new"
    /\ max_retries = DefaultMaxRetries
    /\ attempts = 0
    /\ last_error = None
    /\ calls = <<>>
    /\ logged = 0
    /\ result = None
    /\ prov = None
    /\ last_embed = None
    /\ memo = None
    /\ db_docs = <<>>
    /\ db_chunks = <<>>
    /\ tmp_files = {}
    /\ response = None
    /\ http = [route |-> "none", status |-> 0]
    /\ qpc = "idle"
    /\ poller = "DocumentProcessor"
    /\ elapsed = 0
    /\ last_status = None
    /\ poll_result = None
    /\ ppc = "idle"
    /\ batch = <<>>
    /\ flags = [persist |-> TRUE, index |-> TRUE]
    /\ pl_chunks = <<>>
    /\ uc_rows = <<>>
    /\ saves = <<>>
    /\ vs_posts = <<>>
    /\ vs_upserted = <<>>
    /\ vs_response = None
    /\ pl_result = None
    /\ pl_trace = <<>>
    /\ sow_table = <<>>
    /\ gen_count = 0
    /\ clock = 0
    /\ last_gen = None
    /\ fcalls = <<>>
    /\ utc_now = 0
    /\ refresh_tokens = <<>>
    /\ spent = {}
    /\ auth_http = [route |-> "none", status |-> 0, reused |-> FALSE]

\* Settings without an OpenAI API key: embeddings come from the fallback.
OfflineSettings(dim) == [embedding_dim |-> dim, client |-> FALSE]

\* No Databricks host, token, warehouse or endpoint: no remote service.
Unconfigured == [uc |-> FALSE, vs |-> FALSE]

\* No OpenAI API key: no generation backend.
NoBackend == [client |-> FALSE]

Init ==
    /\ InitCore
    /\ app_settings = OfflineSettings(1)
    /\ svc = Unconfigured
    /\ gen = NoBackend

NextChunk ==
    \/ /\ cpc = "new"
       /\ \E size \in SizeRange, overlap \in OverlapRange : DocumentProcessor_init(size, overlap)
       /\ UNCHANGED <<retryVars, embedVars, indexVars, pollVars, pipeVars, sowVars, fileVars, authVars>>
    \/ /\ cpc = "ready"
       /\ \E t \in Texts : chunk_text_begin(t)
       /\ UNCHANGED <<retryVars, embedVars, indexVars, pollVars, pipeVars, sowVars, fileVars, authVars>>
    \/ chunk_text_loop /\ UNCHANGED <<retryVars, embedVars, indexVars, pollVars, pipeVars, sowVars, fileVars, authVars>>
    \/ \E f \in FileNames : build_chunks_end(f) /\ UNCHANGED <<retryVars, embedVars, indexVars, pollVars, pipeVars, sowVars, fileVars, authVars>>

SpecChunk == Init /\ [][NextChunk]_vars

\* chunk_text runs in the caller's thread: once called, its loop is stepped.
LoopStep ==
    chunk_text_loop /\ UNCHANGED <<retryVars, embedVars, indexVars, pollVars, pipeVars, sowVars, fileVars, authVars>>

\* The loop reads the text through its words only, and a word through its
\* being non-empty: the texts here are over one letter and the space, and
\* reach more words than the enumerated texts do.
LiveTexts == StringsOver({"a", " "}, MaxTextLen + 2)
NextChunkLive ==
    \/ /\ cpc = "new"
       /\ \E size \in SizeRange, overlap \in OverlapRange : DocumentProcessor_init(size, overlap)
       /\ UNCHANGED <<retryVars, embedVars, indexVars, pollVars, pipeVars, sowVars, fileVars, authVars>>
    \/ /\ cpc = "ready"
       /\ \E t \in LiveTexts : chunk_text_begin(t)
       /\ UNCHANGED <<retryVars, embedVars, indexVars, pollVars, pipeVars, sowVars, fileVars, authVars>>
    \/ LoopStep

SpecChunkLive == Init /\ [][NextChunkLive]_vars /\ WF_vars(LoopStep)

NextRetry ==
    \/ \E m \in RetryRange : WorkflowPipeline_init(m) /\ UNCHANGED <<chunkVars, embedVars, indexVars, pollVars, pipeVars, sowVars, fileVars, authVars>>
    \/ with_retry_begin /\ UNCHANGED <<chunkVars, embedVars, indexVars, pollVars, pipeVars, sowVars, fileVars, authVars>>
    \/ with_retry_attempt /\ UNCHANGED <<chunkVars, embedVars, indexVars, pollVars, pipeVars, sowVars, fileVars, authVars>>
    \/ with_retry_exhausted /\ UNCHANGED <<chunkVars, embedVars, indexVars, pollVars, pipeVars, sowVars, fileVars, authVars>>

SpecRetry == Init /\ [][NextRetry]_vars

NextEmbed ==
    \/ \E dim \in DimRange, api_key \in BOOLEAN, openai_installed \in BOOLEAN :
          EmbeddingService_init(dim, api_key, openai_installed) /\ UNCHANGED <<chunkVars, retryVars, indexVars, pollVars, pipeVars, sowVars, fileVars, authVars>>
    \/ \E t \in EmbedTexts : embed(t) /\ UNCHANGED <<chunkVars, retryVars, indexVars, pollVars, pipeVars, sowVars, fileVars, authVars>>

SpecEmbed == Init /\ [][NextEmbed]_vars

QueryTexts == {<<>>, <<"a">>, <<"b">>, <<"a", ":", " ", "b">>}
KRange == (0 - 1)..MaxK

\* The settings are read once, when the application starts.
InitIndex ==
    /\ InitCore
    /\ app_settings \in {OfflineSettings(dim) : dim \in DimRange}
    /\ svc = Unconfigured
    /\ gen = NoBackend

NextIndex ==
    \/ \E b \in UploadBodies, f \in UploadNames, tmp \in TmpNames :
          upload_document(b, f, tmp) /\ UNCHANGED <<chunkVars, retryVars, embedVars, pollVars, pipeVars, sowVars, fileVars, authVars>>
    \/ \E rows \in RowLists, source \in Sources :
          ingest_text_rows(rows, source) /\ UNCHANGED <<chunkVars, retryVars, embedVars, pollVars, pipeVars, sowVars, fileVars, authVars>>
    \/ \E q \in QueryTexts, k \in KRange :
          search_documents(q, k) /\ UNCHANGED <<chunkVars, retryVars, embedVars, pollVars, pipeVars, sowVars, fileVars, authVars>>
    \/ chunk_without_embedding /\ UNCHANGED <<chunkVars, retryVars, embedVars, pollVars, pipeVars, sowVars, fileVars, authVars>>

SpecIndex == InitIndex /\ [][NextIndex]_vars

NextPoll ==
    \/ \E who \in Pollers : poll_statement_begin(who)
          /\ UNCHANGED <<chunkVars, retryVars, embedVars, indexVars, pipeVars, sowVars, fileVars, authVars>>
    \/ /\ qpc = "polling"
       /\ \E resp \in StatusResponses, tick \in 1..MaxTick : poll_statement_step(resp, tick)
       /\ UNCHANGED <<chunkVars, retryVars, embedVars, indexVars, pipeVars, sowVars, fileVars, authVars>>

PipelineQueries == {<<>>, <<"a">>}

\* The SOWGenerator of the pipeline: with neither a completion client nor a
\* warehouse, or with both.
SowBackends == {[client |-> FALSE, uc |-> FALSE], [client |-> TRUE, uc |-> TRUE]}

\* The services are constructed once, with or without their remote ends.
InitPipeline ==
    /\ InitCore
    /\ app_settings = OfflineSettings(1)
    /\ svc \in [uc : BOOLEAN, vs : BOOLEAN]
    /\ gen \in SowBackends

NextPipeline ==
    \/ /\ cpc = "new"
       /\ \E c \in PipelineConfigs : DocumentProcessor_init(c[1], c[2])
       /\ UNCHANGED <<retryVars, embedVars, indexVars, pollVars, pipeVars, sowVars, fileVars, authVars>>
    \/ \E m \in RetryRange : WorkflowPipeline_init(m)
          /\ UNCHANGED <<chunkVars, embedVars, indexVars, pollVars, pipeVars, sowVars, fileVars, authVars>>
    \/ /\ ppc = "idle"
       /\ \E files \in Batches, persist \in BOOLEAN, index \in BOOLEAN :
             run_document_ingestion(files, persist, index)
       /\ UNCHANGED <<chunkVars, embedVars, indexVars, pollVars, sowVars, fileVars, authVars>>
    \/ persist_attempt /\ UNCHANGED <<chunkVars, embedVars, indexVars, pollVars, sowVars, fileVars, authVars>>
    \/ index_attempt /\ UNCHANGED <<chunkVars, embedVars, indexVars, pollVars, sowVars, fileVars, authVars>>
    \/ ingestion_exhausted /\ UNCHANGED <<chunkVars, embedVars, indexVars, pollVars, sowVars, fileVars, authVars>>
    \/ \E persist \in BOOLEAN : generate_statement_of_work(persist)
          /\ UNCHANGED <<chunkVars, embedVars, indexVars, pollVars, sowVars, fileVars, authVars>>
    \/ generate_attempt /\ UNCHANGED <<chunkVars, embedVars, indexVars, pollVars, sowVars, fileVars, authVars>>
    \/ save_sow_attempt /\ UNCHANGED <<chunkVars, embedVars, indexVars, pollVars, sowVars, fileVars, authVars>>
    \/ /\ ppc \in {"returned", "raised"}
       /\ vs_response = None
       /\ \E q \in PipelineQueries, k \in 1..MaxK : similarity_search(q, k)
       /\ UNCHANGED <<chunkVars, retryVars, embedVars, indexVars, pollVars, sowVars, fileVars, authVars>>

SpecPipeline == InitPipeline /\ [][NextPipeline]_vars

\* The services are constructed once, with or without an API key.
InitSow ==
    /\ InitCore
    /\ app_settings = OfflineSettings(1)
    /\ svc = Unconfigured
    /\ gen \in [client : BOOLEAN]

NextSow ==
    \/ /\ gen_count < MaxSows
       /\ \E request \in GenerationRequests, title \in Titles : SowService_generate(request, title)
       /\ UNCHANGED <<chunkVars, retryVars, embedVars, indexVars, pollVars, pipeVars, fileVars, authVars>>
    \/ \E request \in GenerationRequests : SOWGenerator_generate_sow(request)
          /\ UNCHANGED <<chunkVars, retryVars, embedVars, indexVars, pollVars, pipeVars, fileVars, authVars>>

SpecSow == InitSow /\ [][NextSow]_vars

\* The poll is one thread that runs until it returns or raises: a step that
\* can be taken is taken.
SpecPoll == Init /\ [][NextPoll]_vars /\ WF_vars(NextPoll)

NextAuth ==
    \/ second_passes /\ UNCHANGED <<chunkVars, retryVars, embedVars, indexVars, pollVars, pipeVars, sowVars, fileVars>>
    \/ \E user \in Users, verified \in BOOLEAN :
          login(user, verified)
              /\ UNCHANGED <<chunkVars, retryVars, embedVars, indexVars, pollVars, pipeVars, sowVars, fileVars>>
    \/ \E token \in PresentedTokens :
          refresh(token)
              /\ UNCHANGED <<chunkVars, retryVars, embedVars, indexVars, pollVars, pipeVars, sowVars, fileVars>>

SpecAuth == Init /\ [][NextAuth]_vars

NextExtract ==
    \E path \in FilePaths, exists \in BOOLEAN, data \in FileContents :
        /\ process_file_call(path, exists, data)
        /\ UNCHANGED <<chunkVars, retryVars, embedVars, indexVars, pollVars, pipeVars, sowVars, authVars>>

SpecExtract == Init /\ [][NextExtract]_vars

(***************************************************************************)
(* Claims about the chunker, checked under SpecChunk.                      *)
(***************************************************************************)
\* The words of chunk c without its first n words.
DropWords(c, n) == PySlice(SplitSpace(c), Max(n, 0), Len(SplitSpace(c)))

\* The words of the first chunk followed by those of every later chunk without
\* its first n words.
RECURSIVE LaterWords(_, _)
LaterWords(cs, n) == IF cs = <<>> THEN <<>> ELSE DropWords(Head(cs), n) \o LaterWords(Tail(cs), n)

WithoutOverlaps(cs, n) ==
    IF cs = <<>> THEN <<>> ELSE SplitSpace(Head(cs)) \o LaterWords(Tail(cs), n)

\* C1: for every text and every configuration the constructor accepts, the
\* chunks returned by chunk_text, with the first chunk_overlap words of every
\* chunk after the first dropped and the rest joined by single spaces, are
\* exactly the whitespace-normalised text.
C1_CoverageAllAccepted ==
    cpc = "done" => JoinSpace(WithoutOverlaps(chunks, dp.chunk_overlap)) = Sanitize(text)

\* C10: a constructor call with chunk_overlap >= chunk_size ends in ValueError
\* and constructs no instance, so every instance that chunks a text has
\* chunk_overlap < chunk_size.
C10_OverlapGeSizeRejected ==
    /\ (req # <<>> /\ req[2] >= req[1]) => (cpc = "ValueError" /\ dp = None)
    /\ cpc \in {"ready", "loop", "done"} => (dp # None /\ dp.chunk_overlap < dp.chunk_size)

C10_Witness == req # <<>> /\ req[2] = req[1] /\ cpc = "ValueError"

\* The word offsets the windows of n chunks start at when every window starts
\* size - overlap words after the one before.
StrideStarts(n, size, overlap) == [i \in 1..n |-> (i - 1) * (size - overlap)]

\* C18: for a text of W words the i-th chunk (from 0) starts at word offset
\* i * (chunk_size - chunk_overlap), and the last chunk ends at word W.
C18_ChunkOffsets ==
    cpc \in {"done", "built"} =>
        /\ [i \in 1..Len(windows) |-> windows[i].start]
              = StrideStarts(Len(windows), dp.chunk_size, dp.chunk_overlap)
        /\ Len(words) >= 1 => (windows # <<>> /\ windows[Len(windows)].end = Len(words))

\* The word positions (from 0) a window covers: words[start:end] as Python
\* slices it, a negative end counting from the last word.
WindowPositions(w) == {p \in 0..(Len(words) - 1) : PySlice([i \in 1..Len(words) |-> i - 1], w.start, w.end) # <<>>
                                                    /\ \E j \in 1..Len(PySlice([i \in 1..Len(words) |-> i - 1], w.start, w.end)) :
                                                          PySlice([i \in 1..Len(words) |-> i - 1], w.start, w.end)[j] = p}

LastWords(c, n) == PySlice(SplitSpace(c), Len(SplitSpace(c)) - n, Len(SplitSpace(c)))
FirstWords(c, n) == PySlice(SplitSpace(c), 0, n)

C25_ChunkTextTerminates ==
    /\ (cpc = "loop") ~> (cpc = "done")
    /\ [][cpc = "loop" => (cpc' = "done" \/ start' > start)]_vars
    /\ [](\A i, j \in 1..Len(windows) : i # j => windows[i] # windows[j])
    /\ [](Len(chunks) <= Len(words))

C25_Witness ==
    /\ cpc = "done"
    /\ dp.chunk_size = 0
    /\ dp.chunk_overlap < 0
    /\ Len(words) = 4
    /\ start = Len(words)

\* C20: the records build_chunks returns carry chunk_id 0, 1, ..., n - 1 in the
\* order of their windows, each with the non-empty text of its window; a text
\* whose normalised form is empty gives no record, and no error.
C20_ContiguousIdsNonEmpty ==
    cpc = "built" =>
        /\ Len(built) = Len(windows)
        /\ \A i \in 1..Len(built) :
              /\ built[i].chunk_id = i - 1
              /\ built[i].content # <<>>
              /\ built[i].content = JoinSpace(PySlice(words, windows[i].start, windows[i].end))
        /\ Sanitize(text) = <<>> => built = <<>>

C20_Witness ==
    /\ cpc = "built"
    /\ Len(built) = 2
    /\ built[2].chunk_id = 1
    /\ dp.chunk_size = 2
    /\ dp.chunk_overlap = 1

C20_WitnessEmpty ==
    /\ cpc = "built"
    /\ text # <<>>
    /\ Sanitize(text) = <<>>
    /\ built = <<>>

(***************************************************************************)
(* Claims about the retry wrapper, checked under SpecRetry.                *)
(***************************************************************************)
AllFailed == \A i \in 1..Len(calls) : calls[i].kind = "error"

C3_SuccessAfterFailures ==
    /\ \A i \in 1..Len(calls) : calls[i].kind = "value" => (i = Len(calls) /\ rpc = "returned")
    /\ logged = Cardinality({i \in 1..Len(calls) : calls[i].kind = "error"})
    /\ rpc = "returned" =>
          LET j == Len(calls) - 1
          IN  /\ j >= 0
              /\ j < max_retries
              /\ \A i \in 1..j : calls[i].kind = "error"
              /\ result = calls[j + 1]
              /\ result.kind = "value"
              /\ logged = j
              /\ attempts = j

C3_Witness ==
    /\ rpc = "returned"
    /\ max_retries = 3
    /\ Len(calls) = 3
    /\ logged = 2
    /\ result = Returned("v1")

\* C4: with max_retries = 0 the operation is never invoked and the wrapper
\* raises the "no attempts executed" error; it returns no value.
C4_ZeroRetries ==
    (rpc # "new" /\ max_retries = 0) =>
        /\ calls = <<>>
        /\ rpc # "returned"
        /\ rpc = "raised" => result = NoAttempts

C4_Witness == max_retries = 0 /\ rpc = "raised" /\ calls = <<>>

(***************************************************************************)
(* Claims about the embedding providers, checked under SpecEmbed.          *)
(***************************************************************************)
WhitespaceOnly(t) == \A i \in 1..Len(t) : t[i] \in Whitespace

\* C7: every vector embed returns has the length of the instance's configured
\* dimension, in every mode (zero vector, remote backend, fallback).
C7_LengthIsDimAllModes ==
    last_embed # None => Len(last_embed.vec.num) = last_embed.dim

\* C8: for empty or whitespace-only text embed returns the all-zero vector of
\* the configured dimension and makes no call to the remote backend, with or
\* without a configured backend.
C8_BlankTextZeroVector ==
    (last_embed # None /\ WhitespaceOnly(last_embed.text)) =>
        /\ Len(last_embed.vec.num) = last_embed.dim
        /\ \A i \in 1..last_embed.dim : last_embed.vec.num[i] = 0
        /\ ~last_embed.remote

C8_Witness ==
    /\ last_embed # None
    /\ last_embed.client
    /\ last_embed.text # <<>>
    /\ WhitespaceOnly(last_embed.text)

C5_SearchCountEveryK ==
    response.kind = "search" =>
        LET n == Len(db_chunks)
            rs == response.results
        IN  /\ Len(rs) = IF n < response.k THEN n ELSE response.k
            /\ \A i \in 1..(Len(rs) - 1) : ScoreGeq(rs[i].score, rs[i + 1].score)

\* C6: the index holds at most one entry per identifier file_name::chunk_id, so
\* ingesting the same document twice does not store its chunks twice.
C6_OneEntryPerIdentifier ==
    \A i, j \in 1..Len(db_chunks) :
        (db_chunks[i].file_name = db_chunks[j].file_name
            /\ db_chunks[i].chunk_id = db_chunks[j].chunk_id) => i = j

\* C17: the upload of a non-empty .txt file by a logged-in user is answered
\* with 200, a document and its chunks being stored, and a search after such an
\* upload returns at least one result.
C17_TxtUploadThenSearch ==
    /\ (http.route = "upload" /\ http.txt) =>
          (http.status = 200 /\ response.kind = "document" /\ response.chunk_count >= 1)
    /\ (/\ http.route = "search"
        /\ response.k >= 1
        /\ \E i \in 1..Len(db_docs) : db_docs[i].source = "upload") => http.count >= 1

\* The vectors embed can give for the query of the last search, and the
\* stored row a result was computed from.
QueryVectors == {r.vec : r \in EmbedResults(response.query, app_settings.embedding_dim, app_settings.client)}
RowOf(hit) == db_chunks[hit.id]
ZeroNorm(v) == Dot(v.num, v.num) = 0
SameScore(s1, s2) == ScoreGeq(s1, s2) /\ ScoreGeq(s2, s1)

\* C23: the similarity of two vectors is 0.0, computed without a division,
\* whenever one of them has norm zero; a stored chunk without an embedding is
\* scored as the zero vector and so gets 0.0.
C23_ZeroNormScoresZero ==
    response.kind = "search" =>
        \A j \in 1..Len(response.results) :
            LET stored == RowOf(response.results[j]).embedding
            IN  (\/ stored = None
                 \/ (IF stored = None THEN FALSE ELSE ZeroNorm(stored))
                 \/ \A q \in QueryVectors : ZeroNorm(q))
                    => response.results[j].score = [d |-> 0, n |-> 1]

C23_Witness ==
    /\ response.kind = "search"
    /\ \E q \in QueryVectors : ~ZeroNorm(q)
    /\ \E j \in 1..Len(response.results) :
          /\ RowOf(response.results[j]).embedding = None
          /\ response.results[j].score = [d |-> 0, n |-> 1]
    /\ \E j \in 1..Len(response.results) : response.results[j].score.d # 0

ExtractorOf ==
    [pdf |-> "_process_pdf", docx |-> "_process_docx", txt |-> "_process_txt", csv |-> "_process_csv"]
ExtensionOf(path) == Lower(Suffix(BaseName(path)))

\* C21: process_file fails with the not-found error for every path that does
\* not exist, fails with the unsupported-format error, running no extractor,
\* for every existing file whose lower-cased suffix is none of .pdf, .docx,
\* .txt, .csv, and otherwise runs exactly the one extractor of its suffix.
C21_ProcessFileDispatch ==
    \A i \in 1..Len(fcalls) :
        LET call == fcalls[i]
        IN  IF ~call.exists
            THEN call.outcome = [kind |-> "error", type |-> "FileNotFoundError"] /\ call.ran = <<>>
            ELSE IF ExtensionOf(call.path) \notin SupportedFormats
                 THEN call.outcome = [kind |-> "error", type |-> "ValueError"] /\ call.ran = <<>>
                 ELSE \E fmt \in DOMAIN ExtractorOf :
                         /\ ExtensionOf(call.path) = <<".">> \o Characters(fmt)
                         /\ call.ran = <<ExtractorOf[fmt]>>

C21_Witness ==
    /\ Len(fcalls) = 2
    /\ fcalls[1].path = Characters("a.PDF")
    /\ fcalls[1].ran = <<"_process_pdf">>
    /\ fcalls[2].path = Characters("a.txt.b")
    /\ fcalls[2].exists
    /\ fcalls[2].outcome.kind = "error"

(***************************************************************************)
(* Claims about the /auth routes, checked under SpecAuth.                  *)
(***************************************************************************)
\* C30: a refresh token is single-use: once a refresh has exchanged it, every
\* later refresh that presents it is answered 401.
C30_RefreshTokenSingleUse ==
    (auth_http.route = "refresh" /\ auth_http.reused) => auth_http.status = 401

(***************************************************************************)
(* Claims about the polling loops, checked under SpecPoll.                 *)
(***************************************************************************)
\* C11: every poll that has begun ends, by returning or by raising, whatever
\* the statuses the warehouse answers with, a status that stays pending
\* forever included.
C11_PollTerminates == (qpc = "polling") ~> (qpc \in {"returned", "raised"})

\* C27: a poll returns normally, so that the SQL step counts as completed,
\* only if the status it read last is the succeeded state: a cancelled or
\* closed statement, or a status without a state, is not a success.
C27_ReturnsOnlyOnSucceeded ==
    qpc = "returned" => (last_status.http = "ok" /\ last_status.state = "SUCCEEDED")

(***************************************************************************)
(* Claims about document ingestion, checked under SpecPipeline.            *)
(***************************************************************************)
SomeFileFailed == \E i \in 1..Len(batch) : Extracted(batch[i]).kind = "error"

\* C12: when a file of the batch fails extraction, run_document_ingestion
\* hands that failure to its caller, never a chunk list, and no chunk of the
\* batch is persisted or indexed.
C12_FailedFileFailsTheBatch ==
    (ppc # "idle" /\ SomeFileFailed) =>
        /\ ppc # "returned"
        /\ uc_rows = <<>>
        /\ vs_posts = <<>>

\* The first j chunks, for every j of the sequence, one after the other.
RECURSIVE PrefixRuns(_, _)
PrefixRuns(cs, js) ==
    IF js = <<>> THEN <<>> ELSE SubSeq(cs, 1, Head(js)) \o PrefixRuns(cs, Tail(js))

C28_DistinctVectorIds ==
    (ppc \in {"index", "returned"} /\ \A i, j \in 1..Len(batch) : i # j => batch[i].name # batch[j].name) =>
        \A i, j \in 1..Len(pl_chunks) :
            i # j => VectorIds(pl_chunks)[i] # VectorIds(pl_chunks)[j]

\* The positions of the trace at which the step was invoked.
InvocationsOf(step) == {i \in 1..Len(pl_trace) : pl_trace[i].step = step}
ReturnedAt(step) == {i \in InvocationsOf(step) : pl_trace[i].ok}
\* The step is invoked only after the earlier step has returned, and the
\* earlier step is not invoked again after that.
RunsAfter(later, earlier) ==
    \A i \in InvocationsOf(later) :
        /\ \E j \in ReturnedAt(earlier) : j < i
        /\ \A j \in InvocationsOf(earlier) : j < i

\* C26: each wrapped step has its own attempt budget and the steps run in a
\* fixed order: indexing is invoked only after persistence has returned (never
\* when persistence exhausted its attempts), a persistence that returned is
\* not run again because indexing failed, a generation that returned is not
\* run again because saving failed, and no step's operation is invoked more
\* than max_retries times in one pipeline call.
C26_StepOrderAndBudgets ==
    /\ flags.persist => RunsAfter("index", "persist")
    /\ RunsAfter("save_sow", "generate")
    /\ \A step \in {"persist", "index", "generate", "save_sow"} :
          /\ Cardinality(InvocationsOf(step)) <= Max(max_retries, 0)
          /\ Cardinality(ReturnedAt(step)) <= 1
          /\ \A i \in ReturnedAt(step) : \A j \in InvocationsOf(step) : j <= i
    /\ (ppc = "raised" /\ ReturnedAt("persist") = {} /\ flags.persist) => InvocationsOf("index") = {}
    /\ ~flags.persist => (InvocationsOf("persist") = {} /\ InvocationsOf("save_sow") = {})

C26_Witness ==
    /\ ppc = "raised"
    /\ max_retries = 2
    /\ [i \in 1..Len(pl_trace) |-> pl_trace[i].step] = <<"persist", "persist", "index", "index">>
    /\ [i \in 1..Len(pl_trace) |-> pl_trace[i].ok] = <<FALSE, TRUE, FALSE, FALSE>>

C26_WitnessSow ==
    /\ ppc = "raised"
    /\ max_retries = 2
    /\ [i \in 1..Len(pl_trace) |-> pl_trace[i].step] = <<"generate", "generate", "save_sow", "save_sow">>
    /\ [i \in 1..Len(pl_trace) |-> pl_trace[i].ok] = <<FALSE, TRUE, FALSE, FALSE>>

\* C13: without a remote index the chunks handed to upsert are stored, and a
\* similarity_search with k >= 1 over n >= 1 stored chunks returns min(n, k)
\* results.
C13_LocalModeLinearScan ==
    (vs_response # None /\ ~svc.vs /\ vs_response.k >= 1 /\ Len(vs_upserted) >= 1) =>
        Len(vs_response.results) = Min(Len(vs_upserted), vs_response.k)

(***************************************************************************)
(* Claims about the generation services, checked under SpecSow.            *)
(***************************************************************************)
Contains(t, sub) == \E i \in 1..(Len(t) - Len(sub) + 1) : SubSeq(t, i, i + Len(sub) - 1) = sub

C16_SentinelLiterals ==
    (/\ last_gen # None
     /\ last_gen.request.constraints = <<>>
     /\ last_gen.request.context_snippets = <<>>) =>
        /\ Contains(PromptOf(last_gen.service, last_gen.request), Characters("none provided"))
        /\ Contains(PromptOf(last_gen.service, last_gen.request), Characters("no context retrieved"))

====
